---- MODULE Spec2Model ----
(***************************************************************************)
(* Model of streamlit_loan_dashboard.py: column detection and renaming,    *)
(* the required-date check, the sidebar filters, the month-keyed tables,   *)
(* the recovery rate, the month-over-month change and the DPD buckets.     *)
(*                                                                         *)
(* Column labels are sequences of one-character strings, so that           *)
(* normalize and the substring test of find_column work on characters.     *)
(*                                                                         *)
(* The script runs top to bottom once per upload or widget change.  Each   *)
(* specification follows one stretch of it over the sheets that matter     *)
(* there:                                                                  *)
(*   SpecFind    one call of find_column, lines 14-26                      *)
(*   SpecSchema  detection loop, rename, date check, lines 58-73           *)
(*   SpecFilter  sidebar selections and their application, lines 79-99     *)
(*   SpecTabs    Loan_Month_Year and the overview, trend, recovery and     *)
(*               MoM tabs, lines 75-77 and 104-262                         *)
(*   SpecDpd     the risk and DPD-by-segment tabs, lines 162-243           *)
(***************************************************************************)
EXTENDS Integers, Sequences, FiniteSets, TLC

VARIABLES
  pc,          \* the place the script has reached
  columns,     \* df.columns as read from the sheet
  key_i,       \* position of the loop over col_candidates
  found,       \* canonical field -> raw column
  dfcols,      \* df.columns after the rename
  df,          \* the rows of df: each a function from column to cell
  filter_i,    \* position in the sidebar block
  filters,     \* canonical field -> the values selected in the sidebar
  filtered,    \* the index labels of the rows of filtered, in order
  overview,    \* the totals and the recovery rate of the Overview tab
  monthly,     \* the table of the Trend Analysis tab
  mr,          \* the table of the Repayment Rate tab
  mom,         \* the table of the MoM % Change tab
  days_past_due,  \* filtered['days_past_due'] once coerced to numbers
  dpd_bucket_col  \* filtered['dpd_bucket']

schemaVars == <<columns, key_i, found, dfcols>>

filterVars == <<df, filter_i, filters, filtered>>

tabVars == <<overview, monthly, mr, mom, days_past_due, dpd_bucket_col>>

vars == <<pc, schemaVars, filterVars, tabVars>>

-----------------------------------------------------------------------------
(* Bounds of the model *)

\* most columns of an uploaded sheet
MaxCols == 3

\* most rows of a sheet
MaxRows == 2

\* most filterable columns a sheet holds
MaxFilterCols == 2

-----------------------------------------------------------------------------
(* normalize, lines 10-12 *)

UpperChars == <<"A","B","C","D","E","F","G","H","I","J","K","L","M",
                "N","O","P","Q","R","S","T","U","V","W","X","Y","Z">>

LowerChars == <<"a","b","c","d","e","f","g","h","i","j","k","l","m",
                "n","o","p","q","r","s","t","u","v","w","x","y","z">>

DigitChars == {"0","1","2","3","4","5","6","7","8","9"}

\* str.lower() on one character
lower(c) ==
  IF \E i \in 1..Len(UpperChars) : UpperChars[i] = c
  THEN LowerChars[CHOOSE i \in 1..Len(UpperChars) : UpperChars[i] = c]
  ELSE c

\* the characters re.sub(r'[^a-z0-9]', '', ...) keeps
Kept(c) == c \in DigitChars \/ \E i \in 1..Len(LowerChars) : LowerChars[i] = c

RECURSIVE normalize(_)
normalize(col_name) ==
  IF col_name = <<>> THEN <<>>
  ELSE LET c == lower(Head(col_name))
       IN  (IF Kept(c) THEN <<c>> ELSE <<>>) \o normalize(Tail(col_name))

-----------------------------------------------------------------------------
(* col_candidates, lines 44-56: a dict, iterated in insertion order *)

K_loan_date == <<"l","o","a","n","_","d","a","t","e">>
K_sum_disbursed == <<"s","u","m","_","d","i","s","b","u","r","s","e","d">>
K_sum_setup_fee == <<"s","u","m","_","s","e","t","u","p","_","f","e","e">>
K_sum_recovered == <<"s","u","m","_","r","e","c","o","v","e","r","e","d">>
K_outstanding == <<"o","u","t","s","t","a","n","d","i","n","g">>
K_days_past_due == <<"d","a","y","s","_","p","a","s","t","_","d","u","e">>
K_dpd_cat == <<"d","p","d","_","c","a","t">>
K_segment == <<"s","e","g","m","e","n","t">>
K_gender == <<"g","e","n","d","e","r">>
K_loan_status == <<"l","o","a","n","_","s","t","a","t","u","s">>
K_account_state == <<"a","c","c","o","u","n","t","_","s","t","a","t","e">>

col_candidates ==
  << [key |-> K_loan_date, candidates |->
        << <<"a","c","t","u","a","l","_","d","a","t","e","_","o","f","_","l","o","a","n">>,
           <<"a","c","t","u","a","l"," ","d","a","t","e"," ","o","f"," ","l","o","a","n">>,
           <<"d","i","s","b","u","r","s","a","l","_","d","a","t","e">>,
           <<"l","o","a","n","_","d","a","t","e">>,
           <<"d","a","t","e">> >>],
     [key |-> K_sum_disbursed, candidates |->
        << <<"s","u","m","_","l","o","a","n","_","a","m","o","u","n","t","_","d","i","s","b","u","r","s","e","d">>,
           <<"s","u","m","l","o","a","n","a","m","o","u","n","t","d","i","s","b","u","r","s","e","d">>,
           <<"s","u","m","_","l","o","a","n","_","a","m","o","u","n","t">>,
           <<"l","o","a","n","_","a","m","o","u","n","t">>,
           <<"s","u","m","d","i","s","b","u","r","s","e","d">> >>],
     [key |-> K_sum_setup_fee, candidates |->
        << <<"s","u","m","_","s","e","t","_","u","p","_","f","e","e">>,
           <<"s","u","m","_","s","e","t","_","u","p","_","f","e","e","s">>,
           <<"s","u","m","s","e","t","u","p","f","e","e">>,
           <<"s","e","t","u","p","_","f","e","e">>,
           <<"s","u","m"," ","s","e","t"," ","u","p"," ","f","e","e">> >>],
     [key |-> K_sum_recovered, candidates |->
        << <<"s","u","m","_","t","o","t","a","l","_","r","e","c","o","v","e","r","e","d">>,
           <<"s","u","m","_","t","o","t","a","l","_","r","e","c","o","v","e","r","e","d">>,
           <<"s","u","m","t","o","t","a","l","r","e","c","o","v","e","r","e","d">>,
           <<"t","o","t","a","l","_","r","e","c","o","v","e","r","e","d">>,
           <<"s","u","m","_","r","e","c","o","v","e","r","e","d">> >>],
     [key |-> K_outstanding, candidates |->
        << <<"o","u","t","s","t","a","n","d","i","n","g","_","p","r","i","n","c","i","p","l","e">>,
           <<"o","u","t","s","t","a","n","d","i","n","g","_","p","r","i","n","c","i","p","a","l">>,
           <<"o","u","t","s","t","a","n","d","i","n","g","p","r","i","n","c","i","p","l","e">> >>],
     [key |-> K_days_past_due, candidates |->
        << <<"d","a","y","s","_","p","a","s","t","_","d","u","e","_","d","a","t","e">>,
           <<"d","a","y","s","p","a","s","t","d","u","e","d","a","t","e">>,
           <<"d","a","y","s","_","p","a","s","t","_","d","u","e">>,
           <<"d","p","d","_","d","a","y","s">>,
           <<"d","a","y","s","p","a","s","t","d","u","e">> >>],
     [key |-> K_dpd_cat, candidates |->
        << <<"d","p","d">>,
           <<"d","p","d","_","s","t","a","t","u","s">> >>],
     [key |-> K_segment, candidates |->
        << <<"s","e","g","m","e","n","t">>,
           <<"c","u","s","t","o","m","e","r","_","s","e","g","m","e","n","t">> >>],
     [key |-> K_gender, candidates |->
        << <<"g","e","n","d","e","r">>,
           <<"s","e","x">> >>],
     [key |-> K_loan_status, candidates |->
        << <<"l","o","a","n","_","s","t","a","t","u","s">>,
           <<"s","t","a","t","u","s">> >>],
     [key |-> K_account_state, candidates |->
        << <<"a","c","c","o","u","n","t","_","s","t","a","t","e","_","n","a","m","e">>,
           <<"a","c","c","o","u","n","t","_","s","t","a","t","e">> >>] >>

NumKeys == Len(col_candidates)

-----------------------------------------------------------------------------
(* find_column, lines 14-26 *)

None == <<"None">>

\* a in b, on strings: the empty string is in every string
InStr(a, b) ==
  \E i \in 0..(Len(b) - Len(a)) : SubSeq(b, i + 1, i + Len(a)) = a

\* the keys of norm_to_col, in insertion order: a key keeps the place of the
\* first column that normalizes to it
RECURSIVE NormKeys(_)
NormKeys(cols) ==
  IF cols = <<>> THEN <<>>
  ELSE LET front == NormKeys(SubSeq(cols, 1, Len(cols) - 1))
           nc    == normalize(cols[Len(cols)])
       IN  IF \E i \in 1..Len(front) : front[i] = nc
           THEN front ELSE Append(front, nc)

\* the value a dict comprehension leaves under key nc: the last column that
\* normalizes to nc
LastWithNorm(cols, nc) ==
  cols[CHOOSE i \in 1..Len(cols) :
         /\ normalize(cols[i]) = nc
         /\ \A j \in (i + 1)..Len(cols) : normalize(cols[j]) /= nc]

norm_to_col(cols) ==
  LET keys == NormKeys(cols)
  IN  [i \in 1..Len(keys) |-> [nc |-> keys[i], col |-> LastWithNorm(cols, keys[i])]]

\* line 19: nc in norm_to_col
HasKey(n2c, nc) == \E i \in 1..Len(n2c) : n2c[i].nc = nc

Lookup(n2c, nc) == n2c[CHOOSE i \in 1..Len(n2c) : n2c[i].nc = nc].col

\* line 24
PartialMatch(nc, candidates) ==
  \E j \in 1..Len(candidates) :
     InStr(normalize(candidates[j]), nc) \/ InStr(nc, normalize(candidates[j]))

find_column(cols, candidates) ==
  LET n2c   == norm_to_col(cols)
      exact == {j \in 1..Len(candidates) : HasKey(n2c, normalize(candidates[j]))}
      part  == {i \in 1..Len(n2c) : PartialMatch(n2c[i].nc, candidates)}
  IN  IF exact /= {}
      THEN Lookup(n2c, normalize(candidates[CHOOSE j \in exact : \A k \in exact : j <= k]))
      ELSE IF part /= {}
      THEN n2c[CHOOSE i \in part : \A k \in part : i <= k].col
      ELSE None

-----------------------------------------------------------------------------
(* The uploaded sheet's header, line 36 *)

\* labels with letters in them
RawLabels ==
  { <<"D","a","t","e">>,
    <<"D","A","T","E">>,
    <<"d","p","d">>,
    <<"S","t","a","t","u","s">>,
    <<"A","m","o","u","n","t">>,
    <<"S","e","g","m","e","n","t">> }

\* labels without any letter or digit of a-z, A-Z, 0-9
SymbolLabels == { <<"#">>, <<"%">> }

\* read_excel makes the labels of one sheet distinct
HeadersOver(labels) ==
  UNION { { s \in [1..n -> labels] : \A i, j \in 1..n : i /= j => s[i] /= s[j] }
          : n \in 0..MaxCols }

Headers == HeadersOver(RawLabels)

-----------------------------------------------------------------------------
(* find_column on its own: any header, any of the candidate lists *)

\* found = {}, line 58
EmptyMap == [k \in {} |-> None]

\* a table not built (yet, or because its tab found a column missing)
NoTable == <<>>

InitFind ==
  /\ pc = "find"
  /\ columns \in HeadersOver(RawLabels \cup SymbolLabels)
  /\ key_i = 1
  /\ found = EmptyMap
  /\ dfcols = columns
  /\ df = <<>> /\ filter_i = 1 /\ filters = EmptyMap /\ filtered = <<>>
  /\ overview = NoTable /\ monthly = NoTable /\ mr = NoTable /\ mom = NoTable
  /\ days_past_due = NoTable /\ dpd_bucket_col = NoTable

\* one call of find_column, line 60, with the candidates of one field; found
\* keeps what it returned, None too
FindColumn ==
  /\ pc = "find"
  /\ \E i \in 1..NumKeys :
        /\ key_i' = i
        /\ found' = [k \in {col_candidates[i].key} |->
                       find_column(columns, col_candidates[i].candidates)]
  /\ pc' = "returned"
  /\ UNCHANGED <<columns, dfcols, filterVars, tabVars>>

NextFind == FindColumn

SpecFind == InitFind /\ [][NextFind]_vars

-----------------------------------------------------------------------------
(* Column detection, renaming and the date check, lines 58-73 *)

InitSchema ==
  /\ pc = "detect"
  /\ columns \in Headers
  /\ key_i = 1
  /\ found = EmptyMap
  /\ dfcols = columns
  /\ df = <<>> /\ filter_i = 1 /\ filters = EmptyMap /\ filtered = <<>>
  /\ overview = NoTable /\ monthly = NoTable /\ mr = NoTable /\ mom = NoTable
  /\ days_past_due = NoTable /\ dpd_bucket_col = NoTable

\* one pass of the loop at lines 59-62
DetectColumn ==
  /\ pc = "detect"
  /\ key_i <= NumKeys
  /\ LET key == col_candidates[key_i].key
         col == find_column(columns, col_candidates[key_i].candidates)
     IN  found' = IF col /= None
                  THEN [k \in DOMAIN found \cup {key} |->
                          IF k = key THEN col ELSE found[k]]
                  ELSE found
  /\ key_i' = key_i + 1
  /\ UNCHANGED <<pc, columns, dfcols, filterVars, tabVars>>

\* the key rename_map holds for col once the loop at lines 66-67 is over:
\* the last key of found, in insertion order, whose column is col
RenameTarget(fnd, col) ==
  LET hits == {i \in 1..NumKeys :
                 /\ col_candidates[i].key \in DOMAIN fnd
                 /\ fnd[col_candidates[i].key] = col}
  IN  IF hits = {} THEN col
      ELSE col_candidates[CHOOSE i \in hits : \A k \in hits : k <= i].key

\* lines 65-68
RenameColumns ==
  /\ pc = "detect"
  /\ key_i > NumKeys
  /\ dfcols' = [i \in 1..Len(columns) |-> RenameTarget(found, columns[i])]
  /\ pc' = "check_date"
  /\ UNCHANGED <<columns, key_i, found, filterVars, tabVars>>

HasColumn(cols, name) == \E i \in 1..Len(cols) : cols[i] = name

\* lines 71-73: st.stop()
DateMissing ==
  /\ pc = "check_date"
  /\ ~HasColumn(dfcols, K_loan_date)
  /\ pc' = "stopped"
  /\ UNCHANGED <<schemaVars, filterVars, tabVars>>

\* line 71 passes: on to lines 75-77
DateFound ==
  /\ pc = "check_date"
  /\ HasColumn(dfcols, K_loan_date)
  /\ pc' = "derive_period"
  /\ UNCHANGED <<schemaVars, filterVars, tabVars>>

NextSchema == DetectColumn \/ RenameColumns \/ DateMissing \/ DateFound

SpecSchema == InitSchema /\ [][NextSchema]_vars

-----------------------------------------------------------------------------
(* Sidebar filters and their application, lines 79-101 *)

\* a missing cell (NaN)
NA == "<NA>"

\* the text cells of the model's sheets
CellValues == {"A", "B"}

\* the fields the sidebar offers, in the order of lines 82-93
FilterKeys == <<"loan_status", "segment", "gender", "account_state">>

FilterKeySet == {FilterKeys[i] : i \in 1..Len(FilterKeys)}

\* astype(str) on one cell: a missing cell becomes the text "nan"
astype_str(cell) == IF cell = NA THEN "nan" ELSE cell

\* df[k].dropna().astype(str).unique(); the selection is used only through
\* len() and isin(), so the sorted list is kept as a set
Choices(rows, k) ==
  {astype_str(rows[i][k]) : i \in {j \in 1..Len(rows) : rows[j][k] /= NA}}

Sheets ==
  UNION { UNION { [1..n -> [cols -> CellValues \cup {NA}]] : n \in 0..MaxRows }
          : cols \in {c \in SUBSET FilterKeySet : Cardinality(c) <= MaxFilterCols} }

\* the columns of a sheet; a sheet without rows is taken to have none
ColumnsOf(rows) == IF rows = <<>> THEN {} ELSE DOMAIN rows[1]

InitFilter ==
  /\ pc = "sidebar"
  /\ df \in Sheets
  /\ filter_i = 1
  /\ filters = EmptyMap
  /\ filtered = <<>>
  /\ columns = <<>> /\ key_i = 1 /\ found = EmptyMap /\ dfcols = <<>>
  /\ overview = NoTable /\ monthly = NoTable /\ mr = NoTable /\ mom = NoTable
  /\ days_past_due = NoTable /\ dpd_bucket_col = NoTable

\* one of the four blocks of lines 82-93, its column present: the user keeps
\* the default (every choice) or selects any part of the choices
OfferFilter ==
  /\ pc = "sidebar"
  /\ filter_i <= Len(FilterKeys)
  /\ FilterKeys[filter_i] \in ColumnsOf(df)
  /\ \E selection \in SUBSET Choices(df, FilterKeys[filter_i]) :
        filters' = [k \in DOMAIN filters \cup {FilterKeys[filter_i]} |->
                      IF k = FilterKeys[filter_i] THEN selection ELSE filters[k]]
  /\ filter_i' = filter_i + 1
  /\ UNCHANGED <<pc, df, filtered, schemaVars, tabVars>>

\* one of the four blocks, its column absent
NoSuchFilter ==
  /\ pc = "sidebar"
  /\ filter_i <= Len(FilterKeys)
  /\ FilterKeys[filter_i] \notin ColumnsOf(df)
  /\ filter_i' = filter_i + 1
  /\ UNCHANGED <<pc, df, filters, filtered, schemaVars, tabVars>>

\* line 99: the rows of idx that filtered[k].astype(str).isin(vals) keeps
Keep(rows, idx, k, vals) ==
  SelectSeq(idx, LAMBDA i : astype_str(rows[i][k]) \in vals)

\* lines 98-99 without the test of line 98: an empty selection filters too
ApplyOneUnguarded(rows, idx, k, vals) == Keep(rows, idx, k, vals)

\* lines 98-99 for one entry of filters
ApplyOne(rows, idx, k, vals) ==
  IF Cardinality(vals) > 0 THEN Keep(rows, idx, k, vals) ELSE idx

\* lines 96-99: the loop over filters, in the order the sidebar filled it
RECURSIVE ApplyFrom(_, _, _, _)
ApplyFrom(rows, idx, flt, i) ==
  IF i > Len(FilterKeys) THEN idx
  ELSE IF FilterKeys[i] \in DOMAIN flt
       THEN ApplyFrom(rows, ApplyOne(rows, idx, FilterKeys[i], flt[FilterKeys[i]]), flt, i + 1)
       ELSE ApplyFrom(rows, idx, flt, i + 1)

ApplyFilters ==
  /\ pc = "sidebar"
  /\ filter_i > Len(FilterKeys)
  /\ filtered' = ApplyFrom(df, [i \in 1..Len(df) |-> i], filters, 1)
  /\ pc' = "filtered"
  /\ UNCHANGED <<df, filter_i, filters, schemaVars, tabVars>>

NextFilter == OfferFilter \/ NoSuchFilter \/ ApplyFilters

SpecFilter == InitFilter /\ [][NextFilter]_vars

-----------------------------------------------------------------------------
(* Floating-point results.  A finite value is kept as an exact fraction in *)
(* lowest terms; the three special values are values of their own.         *)

NaN == [k |-> "nan"]

PosInf == [k |-> "inf"]

NegInf == [k |-> "-inf"]

Abs(n) == IF n < 0 THEN -n ELSE n

RECURSIVE GCD(_, _)
GCD(a, b) == IF b = 0 THEN a ELSE GCD(b, a % b)

\* the fraction n/d, d /= 0
Num(n, d) ==
  LET g  == GCD(Abs(n), Abs(d))
      sg == IF d < 0 THEN -1 ELSE 1
  IN  [k |-> "num", n |-> (sg * n) \div g, d |-> (sg * d) \div g]

\* a / b on two integer sums, as pandas divides: no exception on b = 0
Divide(a, b) ==
  IF b /= 0 THEN Num(a, b)
  ELSE IF a > 0 THEN PosInf
  ELSE IF a < 0 THEN NegInf
  ELSE NaN

\* x * c and x - c for a float x and a positive integer c
Times(x, c) == IF x.k = "num" THEN Num(x.n * c, x.d) ELSE x

Minus(x, c) == IF x.k = "num" THEN Num(x.n - c * x.d, x.d) ELSE x

-----------------------------------------------------------------------------
(* Loan_Month_Year, lines 75-77, and sort_month_df, lines 104-108 *)

\* the years of the model's calendar
Years == 2023..2024

\* a value of the date column: its kind t and, for a date, <<year, month, day>>
NaT == [t |-> "NaT", v |-> <<>>]

Date(y, m, d) == [t |-> "date", v |-> <<y, m, d>>]

\* what a cell of the date column can hold: a date, a text that is no date,
\* or nothing
DateCells ==
  { Date(2023, 11, 5), Date(2024, 1, 15),
    [t |-> "text", v |-> <<>>], [t |-> "empty", v |-> <<>>] }

\* pd.to_datetime(cell, errors='coerce')
to_datetime(cell) == IF cell.t = "date" THEN cell ELSE NaT

Pad2(n) == (IF n < 10 THEN "0" ELSE "") \o ToString(n)

\* .dt.to_period('M').astype(str) on one value: NaT becomes the text "NaT"
period_str(dt) ==
  IF dt.t = "date" THEN ToString(dt.v[1]) \o "-" \o Pad2(dt.v[2]) ELSE "NaT"

IsoText(y, m, d) == ToString(y) \o "-" \o Pad2(m) \o "-" \o Pad2(d)

\* the texts of the form YYYY-MM-DD that name a day of the model's calendar,
\* each with its date
IsoDays ==
  { <<IsoText(c[1], c[2], c[3]), Date(c[1], c[2], c[3])>> :
      c \in Years \X (1..12) \X (1..28) }

IsoParse ==
  [text \in {p[1] : p \in IsoDays} |-> (CHOOSE p \in IsoDays : p[1] = text)[2]]

\* pd.to_datetime(text, errors='coerce'): a text that names no day is NaT
parse_iso(text) == IF text \in DOMAIN IsoParse THEN IsoParse[text] ELSE NaT

\* the order of sort_values on the helper column _dt: ascending, NaT last
DtBefore(a, b) ==
  /\ a.t = "date"
  /\ \/ b.t /= "date"
     \/ a.v[1] < b.v[1]
     \/ a.v[1] = b.v[1] /\ a.v[2] < b.v[2]
     \/ a.v[1] = b.v[1] /\ a.v[2] = b.v[2] /\ a.v[3] < b.v[3]

\* line 106
MonthDt(row) == parse_iso(row.Loan_Month_Year \o "-01")

RECURSIVE InsertByDt(_, _)
InsertByDt(sorted, row) ==
  IF sorted = <<>> THEN <<row>>
  ELSE IF DtBefore(MonthDt(row), MonthDt(Head(sorted)))
       THEN <<row>> \o sorted
       ELSE <<Head(sorted)>> \o InsertByDt(Tail(sorted), row)

RECURSIVE sort_month_df(_)
sort_month_df(month_df) ==
  IF month_df = <<>> THEN <<>>
  ELSE InsertByDt(sort_month_df(SubSeq(month_df, 1, Len(month_df) - 1)),
                  month_df[Len(month_df)])

-----------------------------------------------------------------------------
(* groupby('Loan_Month_Year')[...].sum().reset_index() *)

\* the metric columns of the sheet
Metrics == {"sum_setup_fee", "sum_recovered", "sum_disbursed"}

\* the amounts of the model's sheets
Amounts == {0, 100, 150}

RECURSIVE SumOver(_, _, _)
SumOver(rows, idx, col) ==
  IF idx = <<>> THEN 0
  ELSE rows[Head(idx)][col] + SumOver(rows, Tail(idx), col)

\* groupby sorts the group keys as texts; the keys are "YYYY-MM" or "NaT",
\* so digit by digit, and "NaT" after every month
KeyBefore(a, b) == DtBefore(parse_iso(a \o "-01"), parse_iso(b \o "-01"))

RECURSIVE KeysInOrder(_)
KeysInOrder(keys) ==
  IF keys = {} THEN <<>>
  ELSE LET first == CHOOSE a \in keys : \A b \in keys \ {a} : KeyBefore(a, b)
       IN  <<first>> \o KeysInOrder(keys \ {first})

GroupKeys(rows, idx) == {rows[idx[i]].Loan_Month_Year : i \in 1..Len(idx)}

RowsOfGroup(rows, idx, key) ==
  SelectSeq(idx, LAMBDA i : rows[i].Loan_Month_Year = key)

\* one row per group key, with the sum of each column of cols
GroupSum(rows, idx, cols) ==
  LET keys == KeysInOrder(GroupKeys(rows, idx))
  IN  [g \in 1..Len(keys) |->
         [c \in cols \cup {"Loan_Month_Year"} |->
            IF c = "Loan_Month_Year" THEN keys[g]
            ELSE SumOver(rows, RowsOfGroup(rows, idx, keys[g]), c)]]

-----------------------------------------------------------------------------
(* The tabs over the filtered dataset *)

\* sheets with a date column and some of the metric columns; they hold no
\* filterable column, so the sidebar offers nothing and filtered is df
LoanRows(cols) ==
  { [c \in cols \cup {"loan_date"} |-> IF c = "loan_date" THEN d ELSE a[c]]
    : d \in DateCells, a \in [cols -> Amounts] }

LoanSheets ==
  UNION { UNION { [1..n -> LoanRows(cols)] : n \in 0..MaxRows }
          : cols \in SUBSET Metrics }

\* the metric columns of the sheet
Present == IF df = <<>> THEN {} ELSE DOMAIN df[1] \cap Metrics

InitTabs ==
  /\ pc = "derive_period"
  /\ df \in LoanSheets
  /\ filter_i = 1 /\ filters = EmptyMap /\ filtered = <<>>
  /\ columns = <<>> /\ key_i = 1 /\ found = EmptyMap /\ dfcols = <<>>
  /\ overview = NoTable /\ monthly = NoTable /\ mr = NoTable /\ mom = NoTable
  /\ days_past_due = NoTable /\ dpd_bucket_col = NoTable

\* lines 76-77, then lines 96-99 with no filter
DerivePeriod ==
  /\ pc = "derive_period"
  /\ df' = [i \in 1..Len(df) |->
              [c \in DOMAIN df[i] \cup {"Loan_Month_Year"} |->
                 IF c = "loan_date" THEN to_datetime(df[i].loan_date)
                 ELSE IF c = "Loan_Month_Year"
                      THEN period_str(to_datetime(df[i].loan_date))
                      ELSE df[i][c]]]
  /\ filtered' = [i \in 1..Len(df) |-> i]
  /\ pc' = "tab_overview"
  /\ UNCHANGED <<filter_i, filters, schemaVars, tabVars>>

\* filtered.get(col, pd.Series(dtype=float)).sum()
Total(col) == IF col \in Present THEN SumOver(df, filtered, col) ELSE 0

\* line 122
recovery_pct(total_recovered, total_disbursed) ==
  IF total_disbursed /= 0
  THEN Times(Divide(total_recovered, total_disbursed), 100)
  ELSE Num(0, 1)

\* lines 119-122
Overview ==
  /\ pc = "tab_overview"
  /\ overview' = [total_disbursed |-> Total("sum_disbursed"),
                  total_recovered |-> Total("sum_recovered"),
                  recovery_pct |-> recovery_pct(Total("sum_recovered"),
                                                Total("sum_disbursed"))]
  /\ pc' = "tab_trend"
  /\ UNCHANGED <<schemaVars, filterVars, monthly, mr, mom, days_past_due, dpd_bucket_col>>

\* lines 136-141
Trend ==
  /\ pc = "tab_trend"
  /\ {"sum_disbursed", "sum_recovered"} \subseteq Present
  /\ monthly' = sort_month_df(GroupSum(df, filtered, {"sum_disbursed", "sum_recovered"}))
  /\ pc' = "tab_recovery"
  /\ UNCHANGED <<schemaVars, filterVars, overview, mr, mom, days_past_due, dpd_bucket_col>>

\* lines 142-143
TrendMissing ==
  /\ pc = "tab_trend"
  /\ ~({"sum_disbursed", "sum_recovered"} \subseteq Present)
  /\ pc' = "tab_recovery"
  /\ UNCHANGED <<schemaVars, filterVars, tabVars>>

\* .replace([inf, -inf], 0) on one value
replace_inf(x) == IF x = PosInf \/ x = NegInf THEN Num(0, 1) ELSE x

\* line 188, for one row of mr
monthly_recovery_pct(row) ==
  replace_inf(Times(Divide(row.sum_recovered, row.sum_disbursed), 100))

\* lines 185-190
Recovery ==
  /\ pc = "tab_recovery"
  /\ {"sum_recovered", "sum_disbursed"} \subseteq Present
  /\ LET t == sort_month_df(GroupSum(df, filtered, {"sum_recovered", "sum_disbursed"}))
     IN  mr' = [i \in 1..Len(t) |->
                  [c \in DOMAIN t[i] \cup {"recovery_pct"} |->
                     IF c = "recovery_pct" THEN monthly_recovery_pct(t[i]) ELSE t[i][c]]]
  /\ pc' = "tab_mom"
  /\ UNCHANGED <<schemaVars, filterVars, overview, monthly, mom, days_past_due, dpd_bucket_col>>

\* lines 191-192
RecoveryMissing ==
  /\ pc = "tab_recovery"
  /\ ~({"sum_recovered", "sum_disbursed"} \subseteq Present)
  /\ pc' = "tab_mom"
  /\ UNCHANGED <<schemaVars, filterVars, tabVars>>

\* Series.pct_change() * 100 at position i: the value over the one before it,
\* less one; nothing comes before the first
pct_change(values, i) ==
  IF i = 1 THEN NaN
  ELSE Times(Minus(Divide(values[i], values[i - 1]), 1), 100)

\* lines 259-262, for the metric chosen in the select box
MoM ==
  /\ pc = "tab_mom"
  /\ \E metric \in Present :
        LET t == sort_month_df(GroupSum(df, filtered, {metric}))
            v == [i \in 1..Len(t) |-> t[i][metric]]
        IN  mom' = [i \in 1..Len(t) |->
                      [Loan_Month_Year |-> t[i].Loan_Month_Year,
                       metric |-> metric,
                       value |-> v[i],
                       mom_pct |-> pct_change(v, i)]]
  /\ pc' = "done"
  /\ UNCHANGED <<schemaVars, filterVars, overview, monthly, mr, days_past_due, dpd_bucket_col>>

\* lines 256-257
MoMMissing ==
  /\ pc = "tab_mom"
  /\ Present = {}
  /\ pc' = "done"
  /\ UNCHANGED <<schemaVars, filterVars, tabVars>>

NextTabs ==
  \/ DerivePeriod \/ Overview
  \/ Trend \/ TrendMissing
  \/ Recovery \/ RecoveryMissing
  \/ MoM \/ MoMMissing

SpecTabs == InitTabs /\ [][NextTabs]_vars

-----------------------------------------------------------------------------
(* Risk Analysis and DPD by Segment, lines 162-216 *)

\* a cell that is no number: a text, or nothing
TextCell == [k |-> "text"]

EmptyCell == [k |-> "none"]

\* the days past due of the model's sheets
DpdNumbers == {-5, 0, 1, 30, 31, 60, 61, 90, 91}

DpdCells == {Num(n, 1) : n \in DpdNumbers} \cup {TextCell, EmptyCell}

\* pd.to_numeric(cell, errors='coerce'): what is no number becomes NaN
to_numeric(cell) == IF cell.k \in {"num", "nan", "inf", "-inf"} THEN cell ELSE NaN

\* x <= c for a float x and an integer c; every comparison with NaN is false
LessEq(x, c) ==
  \/ x.k = "-inf"
  \/ x.k = "num" /\ x.n <= c * x.d

\* lines 201-214; float(x) raises on None and on a text that is no number,
\* and returns NaN on NaN
dpd_bucket(x) ==
  IF x.k \in {"text", "none"} THEN "Unknown"
  ELSE IF LessEq(x, 0) THEN "Current/Not due"
  ELSE IF LessEq(x, 30) THEN "1-30"
  ELSE IF LessEq(x, 60) THEN "31-60"
  ELSE IF LessEq(x, 90) THEN "61-90"
  ELSE "90+"

\* sheets with some of the columns segment and days_past_due; every row is of
\* segment "A", so the default selection of the sidebar keeps every row
DpdRows(cols) ==
  { [c \in cols |-> IF c = "segment" THEN "A" ELSE cell] : cell \in DpdCells }

DpdSheets ==
  UNION { UNION { [1..n -> DpdRows(cols)] : n \in 1..MaxRows }
          : cols \in SUBSET {"segment", "days_past_due"} }

InitDpd ==
  /\ pc = "tab_risk"
  /\ df \in DpdSheets
  /\ filtered = [i \in 1..Len(df) |-> i]
  /\ filter_i = 1 /\ filters = EmptyMap
  /\ columns = <<>> /\ key_i = 1 /\ found = EmptyMap /\ dfcols = <<>>
  /\ overview = NoTable /\ monthly = NoTable /\ mr = NoTable /\ mom = NoTable
  /\ days_past_due = NoTable /\ dpd_bucket_col = NoTable

\* lines 166 and 198
Coerced == [i \in 1..Len(filtered) |-> to_numeric(df[filtered[i]].days_past_due)]

\* lines 165-178
Risk ==
  /\ pc = "tab_risk"
  /\ "days_past_due" \in DOMAIN df[1]
  /\ days_past_due' = Coerced
  /\ pc' = "tab_dpdseg"
  /\ UNCHANGED <<schemaVars, filterVars, overview, monthly, mr, mom, dpd_bucket_col>>

\* lines 179-180
RiskMissing ==
  /\ pc = "tab_risk"
  /\ "days_past_due" \notin DOMAIN df[1]
  /\ pc' = "tab_dpdseg"
  /\ UNCHANGED <<schemaVars, filterVars, tabVars>>

\* lines 197-216
DpdBySegment ==
  /\ pc = "tab_dpdseg"
  /\ {"segment", "days_past_due"} \subseteq DOMAIN df[1]
  /\ days_past_due' = [i \in 1..Len(days_past_due) |-> to_numeric(days_past_due[i])]
  /\ dpd_bucket_col' = [i \in 1..Len(days_past_due) |->
                          dpd_bucket(to_numeric(days_past_due[i]))]
  /\ pc' = "bucketed"
  /\ UNCHANGED <<schemaVars, filterVars, overview, monthly, mr, mom>>

\* lines 242-243
DpdBySegmentMissing ==
  /\ pc = "tab_dpdseg"
  /\ ~({"segment", "days_past_due"} \subseteq DOMAIN df[1])
  /\ pc' = "done"
  /\ UNCHANGED <<schemaVars, filterVars, tabVars>>

NextDpd == Risk \/ RiskMissing \/ DpdBySegment \/ DpdBySegmentMissing

SpecDpd == InitDpd /\ [][NextDpd]_vars

-----------------------------------------------------------------------------
(* Claims about column detection *)

\* C1: once the loop over col_candidates is over, the mapping found, from
\* canonical field to raw column, is injective: no two canonical fields are
\* assigned the same raw column.
C1_FoundInjective ==
  key_i > NumKeys =>
    \A k1, k2 \in DOMAIN found : found[k1] = found[k2] => k1 = k2

\* C2: whenever find_column resolved loan_date to some raw column, the run
\* goes past the date check: it never stops there.
C2_ResolvedDateProceeds ==
  (pc = "stopped") => K_loan_date \notin DOMAIN found

Orderings(n) ==
  {p \in [1..n -> 1..n] : \A i, j \in 1..n : i /= j => p[i] /= p[j]}

Reorder(cols, p) == [i \in 1..Len(cols) |-> cols[p[i]]]

ExactMatchExists(cols, candidates) ==
  \E i \in 1..Len(cols), j \in 1..Len(candidates) :
     normalize(cols[i]) = normalize(candidates[j])

\* C9: when some label's normalized form equals a normalized candidate,
\* find_column returns the same raw label under every reordering of the raw
\* labels.
C9_ExactWinnerOrderFree ==
  pc = "returned" =>
    LET cand == col_candidates[key_i].candidates
    IN  ExactMatchExists(columns, cand) =>
          \A p \in Orderings(Len(columns)) :
             find_column(Reorder(columns, p), cand) = found[col_candidates[key_i].key]

\* C10: find_column never returns a raw column whose normalized label is the
\* empty string.
C10_NoEmptyNormalizedWinner ==
  pc = "returned" =>
    \A k \in DOMAIN found : found[k] /= None => normalize(found[k]) /= <<>>

-----------------------------------------------------------------------------
(* Claims about the filters *)

\* C3: with an empty include-set for a filterable field, filtering a
\* non-empty dataset yields zero rows.
C3_EmptySelectionYieldsNoRows ==
  (pc = "filtered" /\ Len(df) > 0 /\ \E k \in DOMAIN filters : filters[k] = {})
     => filtered = <<>>

DefaultSelections ==
  \A k \in DOMAIN filters : filters[k] = Choices(df, k)

\* C4, as stated: when every filterable field keeps its default selection, the
\* filtered dataset holds every row of the dataset, in the original order,
\* rows with a missing value included.
C4_DefaultKeepsEveryRow ==
  (pc = "filtered" /\ DefaultSelections)
     => filtered = [i \in 1..Len(df) |-> i]

\* a row with a value in every filterable column that holds any value at all
Complete(row) ==
  \A k \in DOMAIN row \cap FilterKeySet :
     (\E j \in 1..Len(df) : df[j][k] /= NA) => row[k] /= NA

Ascending(idx) == \A i, j \in 1..Len(idx) : i < j => idx[i] < idx[j]

\* C4, amended: when every filterable field keeps its default selection, the
\* filtered dataset holds, in the original order, exactly the rows that have a
\* value in every filterable column in which some row has one; a row with a
\* missing value in such a column is dropped.
C4_DefaultKeepsCompleteRows ==
  (pc = "filtered" /\ DefaultSelections)
     => /\ Ascending(filtered)
        /\ {filtered[i] : i \in 1..Len(filtered)}
             = {i \in 1..Len(df) : Complete(df[i])}

\* a default selection was applied to a sheet with a missing and a present
\* value in one filterable column: the row with the value is kept, the other
\* is dropped
C4_Witness ==
  /\ pc = "filtered"
  /\ DefaultSelections
  /\ \E k \in DOMAIN filters :
        /\ filters[k] /= {}
        /\ \E i \in 1..Len(df) : df[i][k] = NA
  /\ Len(filtered) > 0
  /\ Len(filtered) < Len(df)

-----------------------------------------------------------------------------
(* Claims about the month tables and the derived rates *)

\* the rows of filtered whose loan date parsed
Dated == {filtered[i] : i \in {j \in 1..Len(filtered) : df[filtered[j]].loan_date.t = "date"}}

MonthText(date) == ToString(date.v[1]) \o "-" \o Pad2(date.v[2])

\* the calendar months among them, as "YYYY-MM"
MonthsDated == {MonthText(df[i].loan_date) : i \in Dated}

RowsOfMonth(text) == {i \in Dated : MonthText(df[i].loan_date) = text}

RECURSIVE SumOfSet(_, _)
SumOfSet(rowset, col) ==
  IF rowset = {} THEN 0
  ELSE LET i == CHOOSE i \in rowset : TRUE
       IN  df[i][col] + SumOfSet(rowset \ {i}, col)

\* a table with one row per month of MonthsDated and no other row, ascending
\* by month, whose column tcol holds the month's sum of column col
MonthTable(table, tcol, col) ==
  /\ Len(table) = Cardinality(MonthsDated)
  /\ {table[i].Loan_Month_Year : i \in 1..Len(table)} = MonthsDated
  /\ \A i, j \in 1..Len(table) :
        i < j => DtBefore(parse_iso(table[i].Loan_Month_Year \o "-01"),
                          parse_iso(table[j].Loan_Month_Year \o "-01"))
  /\ \A i \in 1..Len(table) :
        table[i][tcol] = SumOfSet(RowsOfMonth(table[i].Loan_Month_Year), col)

TrendBuilt == pc = "done" /\ {"sum_disbursed", "sum_recovered"} \subseteq Present

MoMBuilt == pc = "done" /\ Present /= {}

\* C5: every month table (trend, recovery, MoM) has exactly one row per
\* calendar month among the rows with a parseable date, no row from rows
\* whose date did not parse, ascending months, and the month's sums.
C5_MonthTablesOnlyDatedRows ==
  /\ TrendBuilt =>
       /\ MonthTable(monthly, "sum_disbursed", "sum_disbursed")
       /\ MonthTable(monthly, "sum_recovered", "sum_recovered")
       /\ MonthTable(mr, "sum_disbursed", "sum_disbursed")
       /\ MonthTable(mr, "sum_recovered", "sum_recovered")
  /\ MoMBuilt => \A i \in 1..Len(mom) : MonthTable(mom, "value", mom[i].metric)

\* C6: over the monthly sums v_1..v_n in month order, the MoM series has the
\* undefined marker as its first entry, and entry i > 1 is
\* (v_i - v_{i-1}) / v_{i-1} * 100 when v_{i-1} is not zero and the undefined
\* marker when v_{i-1} is zero.  (The months come first in the table, so the
\* entries of the months are those of the series over the months alone.)
C6_PercentChangeUndefinedOnZero ==
  MoMBuilt =>
    \A i \in {j \in 1..Len(mom) : mom[j].Loan_Month_Year \in MonthsDated} :
       mom[i].mom_pct =
         IF i = 1 THEN NaN
         ELSE IF mom[i - 1].value /= 0
              THEN Num((mom[i].value - mom[i - 1].value) * 100, mom[i - 1].value)
              ELSE NaN

\* recovered / disbursed * 100, and exactly 0 when disbursed is 0
RecoveryRate(recovered, disbursed) ==
  IF disbursed /= 0 THEN Num(recovered * 100, disbursed) ELSE Num(0, 1)

\* C7: the overview's recovery rate and each month's recovery rate equal
\* recovered / disbursed * 100 when disbursed is not zero and exactly 0 when
\* disbursed is 0, whatever recovered is.
C7_RecoveryRateZeroOnZero ==
  /\ pc \in {"tab_trend", "tab_recovery", "tab_mom", "done"} =>
       overview.recovery_pct =
         RecoveryRate(overview.total_recovered, overview.total_disbursed)
  /\ TrendBuilt =>
       \A i \in {j \in 1..Len(mr) : mr[j].Loan_Month_Year \in MonthsDated} :
          mr[i].recovery_pct = RecoveryRate(mr[i].sum_recovered, mr[i].sum_disbursed)

-----------------------------------------------------------------------------
(* Claim about the DPD buckets *)

\* the band of a value of the coerced column: Unknown for a missing or
\* non-numeric value, else the band of the number
Band(x) ==
  IF x.k /= "num" THEN "Unknown"
  ELSE IF x.n <= 0 THEN "Current/Not due"
  ELSE IF x.n <= 30 * x.d THEN "1-30"
  ELSE IF x.n <= 60 * x.d THEN "31-60"
  ELSE IF x.n <= 90 * x.d THEN "61-90"
  ELSE "90+"

\* C8: every value of the coerced days-past-due column gets the bucket of its
\* band: Unknown for a null, missing or non-numeric value, Current/Not due
\* for a value <= 0, then 1-30, 31-60, 61-90 and 90+.
C8_BucketsPartition ==
  pc = "bucketed" =>
    \A i \in 1..Len(days_past_due) : dpd_bucket_col[i] = Band(days_past_due[i])

====
